---------------------------- MODULE Spec2Model ----------------------------
(***************************************************************************)
(* FIFO capital-gains matching of t212.py: calculate_gain_for_ticker       *)
(* called with a reporting window [start_date, end_date] on the event list *)
(* of one instrument.                                                      *)
(*                                                                         *)
(* Python lists hold references to the Event objects, so all_sells,        *)
(* all_buys and relevant_buys are sequences of indices into `events`, and  *)
(* an assignment to ev.num_shares is an update of events[i].num_shares.    *)
(* Quantities, values and costs are integers; timestamps are integers.     *)
(***************************************************************************)
EXTENDS Integers, Sequences, FiniteSets, TLC

\* Bounds of the checked inputs: events per list, shares per event.
MaxEvents == 4
MaxQty    == 2

BUY  == 0
SELL == 1

VARIABLES
    events,                    \* the Event objects of the list passed in
    start_date, end_date,      \* the window of the call
    pc,                        \* position in calculate_gain_for_ticker
    all_sells, all_buys,       \* lines 29-30
    total_prior_shares_sold,   \* lines 40-43
    start_index,               \* line 46
    relevant_buys,             \* line 58
    buy_index, sale_index,     \* lines 64-65
    cgt,                       \* line 66
    log,                       \* history: what each loop iteration consumed and charged
    events0,                   \* history: the events as first passed in
    calls,                     \* history: calls started on these objects
    result1                    \* history: outcome of the first call

vars == <<events, start_date, end_date, pc, all_sells, all_buys,
          total_prior_shares_sold, start_index, relevant_buys, buy_index,
          sale_index, cgt, log, events0, calls, result1>>

---------------------------------------------------------------------------
(* Helpers *)

\* A list comprehension [ev for ev in events if P(ev)]: the indices i, in
\* list order, with keep[i], where keep[i] is P(events[i]).
SelectIdx(keep) ==
    LET F[i \in 0..Len(keep)] ==
            IF i = 0 THEN <<>>
            ELSE IF keep[i] THEN Append(F[i - 1], i) ELSE F[i - 1]
    IN  F[Len(keep)]

\* reduce(lambda a, b: a + b, xs), 0 for the empty list (lines 40-43)
SumSeq(xs) ==
    LET F[i \in 0..Len(xs)] == IF i = 0 THEN 0 ELSE F[i - 1] + xs[i]
    IN  F[Len(xs)]

\* all_buys[start_index:]
Slice(xs, from) == [i \in 1..(IF Len(xs) > from THEN Len(xs) - from ELSE 0) |-> xs[from + i]]

---------------------------------------------------------------------------
(* The frame of one call: a record s with the fields                       *)
(* events, start_date, end_date, pc, all_sells, all_buys,                  *)
(* total_prior_shares_sold, start_index, relevant_buys, buy_index,         *)
(* sale_index, cgt, log.                                                   *)
(*                                                                         *)
(* log has one entry per loop iteration: the buy and the sale it is at     *)
(* (indices into events, sale 0 in the for loop), the quantity it takes    *)
(* from the buy, the branch taken, the costs it subtracts from cgt, and    *)
(* the loop pointers before the iteration.                                 *)

\* SellInWindow with the upper bound of line 29 lost.
SellFromStart(ev, sd, ed) == ev.evType = SELL /\ sd <= ev.date

\* line 29: SELL events with start_date <= date <= end_date
SellInWindow(ev, sd, ed) == ev.evType = SELL /\ sd <= ev.date /\ ev.date <= ed

\* line 30: BUY events with date <= end_date
BuyUpToEnd(ev, ed) == ev.evType = BUY /\ ev.date <= ed

\* line 32: SELL events with date < start_date
SellPrior(ev, sd) == ev.evType = SELL /\ ev.date < sd

\* CallStep reading the list only up to its first event dated after
\* end_date, as a loop that breaks there would on a sorted list.
CallStepStopsAtLate(evs, sd, ed) ==
    LET late  == {i \in 1..Len(evs) : evs[i].date > ed}
        n     == IF late = {} THEN Len(evs)
                 ELSE (CHOOSE i \in late : \A j \in late : i <= j) - 1
        sells == SelectIdx([i \in 1..n |-> SellInWindow(evs[i], sd, ed)])
        buys  == SelectIdx([i \in 1..n |-> BuyUpToEnd(evs[i], ed)])
        prior == SelectIdx([i \in 1..n |-> SellPrior(evs[i], sd)])
        prior_sells == [k \in 1..Len(prior) |-> evs[prior[k]].num_shares]
    IN  [events |-> evs, start_date |-> sd, end_date |-> ed, pc |-> "carry",
         all_sells |-> sells, all_buys |-> buys,
         total_prior_shares_sold |-> SumSeq(prior_sells),
         start_index |-> 0, relevant_buys |-> <<>>,
         buy_index |-> 0, sale_index |-> 0, cgt |-> 0, log |-> <<>>]

\* lines 28-32, 40-46: the filters, the prior total, start_index = 0
CallStep(evs, sd, ed) ==
    LET n     == Len(evs)
        sells == SelectIdx([i \in 1..n |-> SellInWindow(evs[i], sd, ed)])
        buys  == SelectIdx([i \in 1..n |-> BuyUpToEnd(evs[i], ed)])
        prior == SelectIdx([i \in 1..n |-> SellPrior(evs[i], sd)])
        prior_sells == [k \in 1..Len(prior) |-> evs[prior[k]].num_shares]
    IN  [events |-> evs, start_date |-> sd, end_date |-> ed, pc |-> "carry",
         all_sells |-> sells, all_buys |-> buys,
         total_prior_shares_sold |-> SumSeq(prior_sells),
         start_index |-> 0, relevant_buys |-> <<>>,
         buy_index |-> 0, sale_index |-> 0, cgt |-> 0, log |-> <<>>]

\* The buy the for loop of line 47 is at. Every iteration that does not
\* break increments start_index (line 51), so the loop's position in
\* all_buys is start_index.
LoopBuy(s) == s.all_buys[s.start_index + 1]

\* line 47: the for loop has another buy
CarryMore(s) == s.start_index < Len(s.all_buys)

\* line 49
CarryCovers(s) == s.total_prior_shares_sold >= s.events[LoopBuy(s)].num_shares

\* lines 58, 64-66: leaving the for loop
EnterMatch(s) ==
    [s EXCEPT !.relevant_buys = Slice(s.all_buys, s.start_index),
              !.buy_index = 0, !.sale_index = 0, !.cgt = 0, !.pc = "match"]

\* lines 49-52: the buy is wholly consumed by prior sells
CarryConsumeStep(s) ==
    LET b == LoopBuy(s)
        q == s.events[b].num_shares
    IN  [s EXCEPT !.total_prior_shares_sold = @ - q,
                  !.start_index = @ + 1,
                  !.log = Append(@, [phase |-> "carry", buy |-> b, sale |-> 0,
                                     qty |-> q, branch |-> "consume",
                                     sale_cost |-> 0, buy_cost |-> 0,
                                     sale_pos |-> 0, buy_pos |-> s.start_index])]

\* CarryPartialStep with line 55 lost: the partly consumed buy keeps its
\* original quantity.
CarryPartialKeepsQuantity(s) ==
    LET b == LoopBuy(s)
        q == s.total_prior_shares_sold
    IN  EnterMatch([s EXCEPT
                  !.log = Append(@, [phase |-> "carry", buy |-> b, sale |-> 0,
                                     qty |-> q, branch |-> "partial",
                                     sale_cost |-> 0, buy_cost |-> 0,
                                     sale_pos |-> 0, buy_pos |-> s.start_index])])

\* lines 54-56, then 58-66: the buy is partly consumed; break
CarryPartialStep(s) ==
    LET b == LoopBuy(s)
        q == s.total_prior_shares_sold
    IN  EnterMatch([s EXCEPT !.events[b].num_shares = @ - q,
                  !.log = Append(@, [phase |-> "carry", buy |-> b, sale |-> 0,
                                     qty |-> q, branch |-> "partial",
                                     sale_cost |-> 0, buy_cost |-> 0,
                                     sale_pos |-> 0, buy_pos |-> s.start_index])])

\* line 47 exhausted, then 58-66
CarryEndStep(s) == EnterMatch(s)

\* line 67
SalesLeft(s) == s.sale_index < Len(s.all_sells)

\* line 69: relevant_buys[buy_index] is in range
BuyInRange(s) == s.buy_index < Len(s.relevant_buys)

ThisSale(s) == s.all_sells[s.sale_index + 1]
ThisBuy(s)  == s.relevant_buys[s.buy_index + 1]

\* line 69
ProfitPerShare(s) == s.events[ThisSale(s)].value - s.events[ThisBuy(s)].value

\* BuyHasMore with the comparison of line 70 the wrong way round.
BuyHasMoreSwapped(s) == s.events[ThisBuy(s)].num_shares < s.events[ThisSale(s)].num_shares

\* line 70
BuyHasMore(s) == s.events[ThisBuy(s)].num_shares > s.events[ThisSale(s)].num_shares

\* line 75
BuyHasLess(s) == s.events[ThisBuy(s)].num_shares < s.events[ThisSale(s)].num_shares

\* What one iteration adds to cgt: profit_per_share * quantity, less the
\* costs it subtracts (lines 73, 76, 81)
EntryGain(s, e) == (ProfitPerShare(s) * e.qty) - e.sale_cost - e.buy_cost

\* lines 70-74
MatchMoreStep(s) ==
    LET b == ThisBuy(s)
        sl == ThisSale(s)
        e == [phase |-> "match", buy |-> b, sale |-> sl,
              qty |-> s.events[sl].num_shares, branch |-> "more",
              sale_cost |-> s.events[sl].cost_of_transaction, buy_cost |-> 0,
              sale_pos |-> s.sale_index, buy_pos |-> s.buy_index]
    IN  [s EXCEPT !.events[b].num_shares = @ - s.events[sl].num_shares,
                  !.cgt = @ + EntryGain(s, e),
                  !.sale_index = @ + 1,
                  !.log = Append(@, e)]

\* MatchLessStep with line 78 lost: the purchase pointer stays.
MatchLessKeepsBuyIndex(s) ==
    LET b == ThisBuy(s)
        sl == ThisSale(s)
        e == [phase |-> "match", buy |-> b, sale |-> sl,
              qty |-> s.events[b].num_shares, branch |-> "less",
              sale_cost |-> 0, buy_cost |-> s.events[b].cost_of_transaction,
              sale_pos |-> s.sale_index, buy_pos |-> s.buy_index]
    IN  [s EXCEPT !.cgt = @ + EntryGain(s, e),
                  !.events[sl].num_shares = @ - s.events[b].num_shares,
                  !.log = Append(@, e)]

\* MatchLessStep subtracting the sale's cost as well, as lines 73 and 81 do.
MatchLessChargesSale(s) ==
    LET b == ThisBuy(s)
        sl == ThisSale(s)
        e == [phase |-> "match", buy |-> b, sale |-> sl,
              qty |-> s.events[b].num_shares, branch |-> "less",
              sale_cost |-> s.events[sl].cost_of_transaction,
              buy_cost |-> s.events[b].cost_of_transaction,
              sale_pos |-> s.sale_index, buy_pos |-> s.buy_index]
    IN  [s EXCEPT !.cgt = @ + EntryGain(s, e),
                  !.events[sl].num_shares = @ - s.events[b].num_shares,
                  !.buy_index = @ + 1,
                  !.log = Append(@, e)]

\* lines 75-78
MatchLessStep(s) ==
    LET b == ThisBuy(s)
        sl == ThisSale(s)
        e == [phase |-> "match", buy |-> b, sale |-> sl,
              qty |-> s.events[b].num_shares, branch |-> "less",
              sale_cost |-> 0, buy_cost |-> s.events[b].cost_of_transaction,
              sale_pos |-> s.sale_index, buy_pos |-> s.buy_index]
    IN  [s EXCEPT !.cgt = @ + EntryGain(s, e),
                  !.events[sl].num_shares = @ - s.events[b].num_shares,
                  !.buy_index = @ + 1,
                  !.log = Append(@, e)]

\* MatchEqualStep with line 82 lost: the sale keeps its quantity.
MatchEqualKeepsSale(s) ==
    LET b == ThisBuy(s)
        sl == ThisSale(s)
        e == [phase |-> "match", buy |-> b, sale |-> sl,
              qty |-> s.events[sl].num_shares, branch |-> "equal",
              sale_cost |-> s.events[sl].cost_of_transaction, buy_cost |-> 0,
              sale_pos |-> s.sale_index, buy_pos |-> s.buy_index]
    IN  [s EXCEPT !.cgt = @ + EntryGain(s, e),
                  !.buy_index = @ + 1,
                  !.sale_index = @ + 1,
                  !.log = Append(@, e)]

\* lines 79-84
MatchEqualStep(s) ==
    LET b == ThisBuy(s)
        sl == ThisSale(s)
        e == [phase |-> "match", buy |-> b, sale |-> sl,
              qty |-> s.events[sl].num_shares, branch |-> "equal",
              sale_cost |-> s.events[sl].cost_of_transaction, buy_cost |-> 0,
              sale_pos |-> s.sale_index, buy_pos |-> s.buy_index]
    IN  [s EXCEPT !.cgt = @ + EntryGain(s, e),
                  !.events[sl].num_shares = @ - s.events[b].num_shares,
                  !.buy_index = @ + 1,
                  !.sale_index = @ + 1,
                  !.log = Append(@, e)]

\* line 86
ReturnStep(s) == [s EXCEPT !.pc = "returned"]

\* line 69 with buy_index out of range: Python raises IndexError
IndexErrorStep(s) == [s EXCEPT !.pc = "IndexError"]

Terminal == {"returned", "IndexError"}

\* One step of the function from frame s
StepOf(s) ==
    IF s.pc = "carry" THEN
        IF ~CarryMore(s) THEN CarryEndStep(s)
        ELSE IF CarryCovers(s) THEN CarryConsumeStep(s)
        ELSE CarryPartialStep(s)
    ELSE IF s.pc = "match" THEN
        IF ~SalesLeft(s) THEN ReturnStep(s)
        ELSE IF ~BuyInRange(s) THEN IndexErrorStep(s)
        ELSE IF BuyHasMore(s) THEN MatchMoreStep(s)
        ELSE IF BuyHasLess(s) THEN MatchLessStep(s)
        ELSE MatchEqualStep(s)
    ELSE s

\* The function run to its end from frame s
RECURSIVE RunFrom(_)
RunFrom(s) == IF s.pc \in Terminal THEN s ELSE RunFrom(StepOf(s))

\* calculate_gain_for_ticker(events, start_date, end_date) as a function:
\* the final frame (outcome in pc, the returned value in cgt, the mutated
\* objects in events)
calculate_gain_for_ticker(evs, sd, ed) == RunFrom(CallStep(evs, sd, ed))

---------------------------------------------------------------------------
(* The state machine *)

Cur == [events |-> events, start_date |-> start_date, end_date |-> end_date,
        pc |-> pc, all_sells |-> all_sells, all_buys |-> all_buys,
        total_prior_shares_sold |-> total_prior_shares_sold,
        start_index |-> start_index, relevant_buys |-> relevant_buys,
        buy_index |-> buy_index, sale_index |-> sale_index, cgt |-> cgt,
        log |-> log]

Apply(t) ==
    /\ events' = t.events
    /\ pc' = t.pc
    /\ all_sells' = t.all_sells
    /\ all_buys' = t.all_buys
    /\ total_prior_shares_sold' = t.total_prior_shares_sold
    /\ start_index' = t.start_index
    /\ relevant_buys' = t.relevant_buys
    /\ buy_index' = t.buy_index
    /\ sale_index' = t.sale_index
    /\ cgt' = t.cgt
    /\ log' = t.log
    /\ UNCHANGED <<start_date, end_date, events0>>

\* cgt is linear in the events' values: with all costs zero it is
\*   SUM over sells of value * (quantity matched of that sell)
\*   - SUM over buys of value * (quantity matched from that buy).
\* The value of the event dated d is PriceBase^d with PriceBase above twice
\* the largest quantity, so distinct events carry independent values and
\* two runs return the same cgt only if they matched the same quantities
\* of every event.
PriceBase == 2 * MaxQty + 1
Price(d) == PriceBase ^ d

\* The cost of every transaction of a list: none, or a flat fee.
Fees == {0, 1}

Shapes == [evType : {BUY, SELL}, num_shares : 1..MaxQty]

\* An event list in chronological order with distinct timestamps: the
\* event at position i has the shape f[i] and is dated i.
ChronoList(f, fee) ==
    [i \in 1..Len(f) |-> [evType |-> f[i].evType, date |-> i,
                          num_shares |-> f[i].num_shares,
                          value |-> Price(i),
                          cost_of_transaction |-> fee]]

Perms(n) == {p \in [1..n -> 1..n] : \A i, j \in 1..n : i # j => p[i] # p[j]}

\* The events of l in the order p
Permuted(l, p) == [i \in 1..Len(l) |-> l[p[i]]]

\* The lists of a caller that did not sort them are one event shorter than
\* the chronological lists.
OrderLen == MaxEvents - 1

\* The state before the call, whatever the list
InitRest(maxdate) ==
    /\ events0 = events
    /\ start_date \in 1..maxdate
    /\ end_date \in start_date..maxdate
    /\ pc = "idle"
    /\ all_sells = <<>>
    /\ all_buys = <<>>
    /\ total_prior_shares_sold = 0
    /\ start_index = 0
    /\ relevant_buys = <<>>
    /\ buy_index = 0
    /\ sale_index = 0
    /\ cgt = 0
    /\ log = <<>>
    /\ calls = 0
    /\ result1 = [pc |-> "none", cgt |-> 0, log |-> <<>>]

\* A chronological list of up to MaxEvents events and a window
Init ==
    \E n \in 0..MaxEvents : \E f \in [1..n -> Shapes] : \E fee \in Fees :
        /\ events = ChronoList(f, fee)
        /\ InitRest(MaxEvents)

\* The events of a chronological list of up to OrderLen events, in any
\* order, and a window
InitAnyOrder ==
    \E n \in 0..OrderLen : \E p \in Perms(n) :
        \E f \in [1..n -> Shapes] : \E fee \in Fees :
            /\ events = Permuted(ChronoList(f, fee), p)
            /\ InitRest(OrderLen)

CanCall ==
    pc = "idle"

Call ==
    /\ CanCall
    /\ Apply(CallStep(events, start_date, end_date))
    /\ calls' = calls + 1
    /\ UNCHANGED result1

CanCarryConsume ==
    pc = "carry" /\ CarryMore(Cur) /\ CarryCovers(Cur)

CarryConsume ==
    /\ CanCarryConsume
    /\ Apply(CarryConsumeStep(Cur))
    /\ UNCHANGED <<calls, result1>>

CanCarryPartial ==
    pc = "carry" /\ CarryMore(Cur) /\ ~CarryCovers(Cur)

CarryPartial ==
    /\ CanCarryPartial
    /\ Apply(CarryPartialStep(Cur))
    /\ UNCHANGED <<calls, result1>>

CanCarryEnd ==
    pc = "carry" /\ ~CarryMore(Cur)

CarryEnd ==
    /\ CanCarryEnd
    /\ Apply(CarryEndStep(Cur))
    /\ UNCHANGED <<calls, result1>>

CanMatchMore ==
    pc = "match" /\ SalesLeft(Cur) /\ BuyInRange(Cur) /\ BuyHasMore(Cur)

MatchMore ==
    /\ CanMatchMore
    /\ Apply(MatchMoreStep(Cur))
    /\ UNCHANGED <<calls, result1>>

CanMatchLess ==
    /\ pc = "match" /\ SalesLeft(Cur) /\ BuyInRange(Cur)
    /\ ~BuyHasMore(Cur) /\ BuyHasLess(Cur)

MatchLess ==
    /\ CanMatchLess
    /\ Apply(MatchLessStep(Cur))
    /\ UNCHANGED <<calls, result1>>

CanMatchEqual ==
    /\ pc = "match" /\ SalesLeft(Cur) /\ BuyInRange(Cur)
    /\ ~BuyHasMore(Cur) /\ ~BuyHasLess(Cur)

MatchEqual ==
    /\ CanMatchEqual
    /\ Apply(MatchEqualStep(Cur))
    /\ UNCHANGED <<calls, result1>>

CanRaiseIndexError ==
    pc = "match" /\ SalesLeft(Cur) /\ ~BuyInRange(Cur)

RaiseIndexError ==
    /\ CanRaiseIndexError
    /\ Apply(IndexErrorStep(Cur))
    /\ UNCHANGED <<calls, result1>>

CanReturn ==
    pc = "match" /\ ~SalesLeft(Cur)

Return ==
    /\ CanReturn
    /\ Apply(ReturnStep(Cur))
    /\ UNCHANGED <<calls, result1>>

\* The caller calls again with the same window on the same objects.
CallAgain ==
    /\ pc \in Terminal /\ calls = 1
    /\ Apply(CallStep(events, start_date, end_date))
    /\ calls' = 2
    /\ result1' = [pc |-> pc, cgt |-> cgt, log |-> log]

Next ==
    \/ Call
    \/ CarryConsume
    \/ CarryPartial
    \/ CarryEnd
    \/ MatchMore
    \/ MatchLess
    \/ MatchEqual
    \/ RaiseIndexError
    \/ Return

Spec == Init /\ [][Next]_vars

NextTwice == Next \/ CallAgain

SpecTwice == Init /\ [][NextTwice]_vars

SpecAnyOrder == InitAnyOrder /\ [][Next]_vars

---------------------------------------------------------------------------
(* Reference FIFO, unit by unit *)

\* The events of evs selected by idx, each repeated once per share:
\* <<i, i, j, ...>> for the events i, j, ... of idx with 2, 1, ... shares.
RECURSIVE Units(_, _)
Units(evs, idx) ==
    IF idx = <<>> THEN <<>>
    ELSE [k \in 1..evs[Head(idx)].num_shares |-> Head(idx)] \o Units(evs, Tail(idx))

BuyUnits(evs) == Units(evs, SelectIdx([i \in 1..Len(evs) |-> evs[i].evType = BUY]))

SellUnitsUpTo(evs, ed) ==
    Units(evs, SelectIdx([i \in 1..Len(evs) |->
                             evs[i].evType = SELL /\ evs[i].date <= ed]))

\* Every disposal dated at or before ed is covered by purchases made before
\* it: its every share has a purchased share dated earlier, after the
\* earlier disposals took theirs.
Covered(evs, ed) ==
    LET bu == BuyUnits(evs)
        su == SellUnitsUpTo(evs, ed)
    IN  /\ Len(su) <= Len(bu)
        /\ \A k \in 1..Len(su) : evs[bu[k]].date < evs[su[k]].date

ZeroCosts(evs) == \A i \in 1..Len(evs) : evs[i].cost_of_transaction = 0

\* The k-th share sold is the k-th share bought; the shares sold in the
\* window each gain the difference of the two values.
RefGain(evs, sd, ed) ==
    LET bu == BuyUnits(evs)
        su == SellUnitsUpTo(evs, ed)
        G[k \in 0..Len(su)] ==
            IF k = 0 THEN 0
            ELSE G[k - 1] + (IF evs[su[k]].date >= sd
                             THEN evs[su[k]].value - evs[bu[k]].value ELSE 0)
    IN  G[Len(su)]

LogIdx == 1..Len(log)

---------------------------------------------------------------------------
(* C1 *)

\* C1: on a chronologically ordered list with all costs zero and every
\* disposal dated <= end_date covered by earlier purchases, the call returns
\* (it does not raise) and returns the gain of the reference FIFO: the sum
\* over the shares sold in the window of (disposal value - value of the
\* oldest purchased share not yet sold).
C1_GainIsFifoGain ==
    (pc \in Terminal /\ calls = 1 /\ ZeroCosts(events0) /\ Covered(events0, end_date)) =>
        /\ pc = "returned"
        /\ cgt = RefGain(events0, start_date, end_date)

\* C1 witness: a returned call in which a lot partly consumed by a prior
\* disposal is then matched in the window, and the same disposal goes on to
\* a later lot.
C1_Witness ==
    /\ pc = "returned" /\ calls = 1
    /\ ZeroCosts(events0) /\ Covered(events0, end_date)
    /\ cgt # 0
    /\ \E i, j, k \in LogIdx :
          /\ log[i].branch = "partial" /\ log[i].qty > 0
          /\ log[j].phase = "match" /\ log[j].buy = log[i].buy
          /\ log[k].phase = "match" /\ log[k].sale = log[j].sale
          /\ log[k].buy # log[j].buy

---------------------------------------------------------------------------
(* What the log says *)

MatchIdx == {k \in LogIdx : log[k].phase = "match"}

\* The quantity taken from buy b by the first k iterations (for loop and
\* while loop together)
DrawnUpTo(b, k) ==
    LET D[j \in 0..k] ==
            IF j = 0 THEN 0
            ELSE D[j - 1] + (IF log[j].buy = b THEN log[j].qty ELSE 0)
    IN  D[k]

Drawn(b) == DrawnUpTo(b, Len(log))

\* The loop pointers after iteration k of the log
SalePosAfter(k) == IF k = Len(log) THEN sale_index ELSE log[k + 1].sale_pos
BuyPosAfter(k)  == IF k = Len(log) THEN buy_index ELSE log[k + 1].buy_pos

\* The costs subtracted from cgt for sale sl / for buy b so far
SaleCostCharged(sl) ==
    LET C[j \in 0..Len(log)] ==
            IF j = 0 THEN 0
            ELSE C[j - 1] + (IF log[j].sale = sl THEN log[j].sale_cost ELSE 0)
    IN  C[Len(log)]

---------------------------------------------------------------------------
(* C2 *)

\* C2: at every step of the matching sweep, the cost of the purchase lot
\* is subtracted from the gain if and only if that step exhausts the lot
\* (the quantity drawn from it reaches its original quantity), in the
\* equal-quantities branch too.
C2_LotCostChargedWhenExhausted ==
    \A k \in MatchIdx :
        log[k].buy_cost =
            IF DrawnUpTo(log[k].buy, k) = events0[log[k].buy].num_shares
            THEN events0[log[k].buy].cost_of_transaction
            ELSE 0

---------------------------------------------------------------------------
(* C3 *)

\* C3: when the relevant purchase queue is exhausted while an in-window
\* disposal is still unmatched, the call ends in an insufficient-lots
\* error, not in an out-of-range index access and not in a return.
C3_InsufficientLotsError ==
    (pc \in Terminal /\ SalesLeft(Cur) /\ ~BuyInRange(Cur)) =>
        pc = "InsufficientLotsError"

---------------------------------------------------------------------------
(* C7 *)

\* C7: every step of the sweep subtracts the disposal's cost exactly when
\* it advances the disposal pointer, and in a run that returns each
\* in-window disposal has had its cost subtracted once in total and has
\* exactly one such step.
C7_SaleCostChargedOnce ==
    /\ \A k \in MatchIdx :
          log[k].sale_cost =
              IF SalePosAfter(k) > log[k].sale_pos
              THEN events0[log[k].sale].cost_of_transaction
              ELSE 0
    /\ pc = "returned" =>
          \A i \in 1..Len(all_sells) :
              /\ SaleCostCharged(all_sells[i]) =
                     events0[all_sells[i]].cost_of_transaction
              /\ Cardinality({k \in MatchIdx : /\ log[k].sale = all_sells[i]
                                                /\ SalePosAfter(k) > log[k].sale_pos}) = 1

\* C7 witness: a returned call in which a disposal with a cost was matched
\* against two lots.
C7_Witness ==
    /\ pc = "returned"
    /\ \E j, k \in MatchIdx :
          /\ j < k
          /\ log[j].sale = log[k].sale
          /\ log[j].buy # log[k].buy
          /\ events0[log[k].sale].cost_of_transaction > 0
          /\ log[k].sale_cost > 0

---------------------------------------------------------------------------
(* C6 *)

InSeq(x, xs) == \E k \in 1..Len(xs) : xs[k] = x

LateSell(ev, ed) == ev.evType = SELL /\ ev.date > ed

\* The quantity sold before sd
PriorSold(evs, sd) ==
    LET F[i \in 0..Len(evs)] ==
            IF i = 0 THEN 0
            ELSE F[i - 1] + (IF evs[i].evType = SELL /\ evs[i].date < sd
                             THEN evs[i].num_shares ELSE 0)
    IN  F[Len(evs)]

\* The quantity of sale sl matched by the sweep so far
MatchedQty(sl) ==
    LET F[j \in 0..Len(log)] ==
            IF j = 0 THEN 0
            ELSE F[j - 1] + (IF log[j].phase = "match" /\ log[j].sale = sl
                             THEN log[j].qty ELSE 0)
    IN  F[Len(log)]

\* The positions of evs that do not hold a disposal dated after ed
KeptIdx(evs, ed) == SelectIdx([i \in 1..Len(evs) |-> ~LateSell(evs[i], ed)])

\* evs with the disposals dated after ed removed
WithoutLateSells(evs, ed) ==
    LET kept == KeptIdx(evs, ed)
    IN  [k \in 1..Len(kept) |-> evs[kept[k]]]

\* evs with the disposals dated after ed changed in quantity, value and cost
WithLateSellsChanged(evs, ed) ==
    [i \in 1..Len(evs) |->
        IF LateSell(evs[i], ed)
        THEN [evs[i] EXCEPT !.num_shares = @ + 1, !.value = @ + 1,
                            !.cost_of_transaction = @ + 1]
        ELSE evs[i]]

\* C6: a disposal is in all_sells exactly when start_date <= date <=
\* end_date (bounds included); the disposals dated before start_date make
\* up total_prior_shares_sold and are never matched; a disposal dated after
\* end_date is never matched nor changed; every in-window disposal of a
\* returned call is matched in full; and on a list with disposals dated
\* after end_date the outcome, the gain and the final quantities are those
\* of the call on the list with these disposals removed, or changed.
C6_WindowClassification ==
    /\ pc # "idle" =>
          \A i \in 1..Len(events0) :
              events0[i].evType = SELL =>
                  /\ InSeq(i, all_sells) <=>
                        (start_date <= events0[i].date /\ events0[i].date <= end_date)
                  /\ ~(start_date <= events0[i].date /\ events0[i].date <= end_date) =>
                        /\ events[i] = events0[i]
                        /\ \A k \in LogIdx : log[k].sale # i
    /\ (pc = "carry" /\ log = <<>>) =>
          total_prior_shares_sold = PriorSold(events0, start_date)
    /\ pc = "returned" =>
          \A i \in 1..Len(all_sells) :
              MatchedQty(all_sells[i]) = events0[all_sells[i]].num_shares
    /\ (pc \in Terminal /\ \E i \in 1..Len(events0) : LateSell(events0[i], end_date)) =>
          LET kept == KeptIdx(events0, end_date)
              r == calculate_gain_for_ticker(WithoutLateSells(events0, end_date),
                                             start_date, end_date)
              c == calculate_gain_for_ticker(WithLateSellsChanged(events0, end_date),
                                             start_date, end_date)
          IN  /\ r.pc = pc /\ r.cgt = cgt
              /\ \A k \in 1..Len(kept) :
                    r.events[k].num_shares = events[kept[k]].num_shares
              /\ c.pc = pc /\ c.cgt = cgt
              /\ \A k \in 1..Len(kept) :
                    c.events[kept[k]].num_shares = events[kept[k]].num_shares

\* C6 witness: a returned call with a non-zero gain on a list with a
\* disposal before the window, one dated start_date, one dated end_date
\* and one after the window.
C6_Witness ==
    /\ pc = "returned" /\ cgt # 0
    /\ \E i, j, k, l \in 1..Len(events0) :
          /\ SellPrior(events0[i], start_date)
          /\ events0[j].evType = SELL /\ events0[j].date = start_date
          /\ events0[k].evType = SELL /\ events0[k].date = end_date
          /\ LateSell(events0[l], end_date)

---------------------------------------------------------------------------
(* C8 *)

\* C8: no event's num_shares is ever negative, and the quantity drawn from
\* a purchase lot by the prior disposals and the in-window matches together
\* never exceeds the lot's original quantity.
C8_QuantitiesBounded ==
    \A i \in 1..Len(events) :
        /\ events[i].num_shares >= 0
        /\ events0[i].evType = BUY => Drawn(i) <= events0[i].num_shares

\* C8 witness: a returned call in which a lot was partly consumed by prior
\* disposals, then matched in the window down to nothing, and a disposal's
\* quantity was brought to zero.
C8_Witness ==
    /\ pc = "returned"
    /\ \E i \in 1..Len(events) : events0[i].evType = SELL /\ events[i].num_shares = 0
    /\ \E j, k \in LogIdx :
          /\ log[j].branch = "partial" /\ log[j].qty > 0
          /\ log[k].phase = "match" /\ log[k].buy = log[j].buy
          /\ Drawn(log[j].buy) = events0[log[j].buy].num_shares

---------------------------------------------------------------------------
(* C9 *)

\* The purchases dated <= ed cover the disposals dated <= ed
Sufficient(evs, ed) ==
    LET F[i \in 0..Len(evs)] ==
            IF i = 0 THEN 0
            ELSE F[i - 1] + (IF evs[i].date > ed THEN 0
                             ELSE IF evs[i].evType = BUY THEN evs[i].num_shares
                             ELSE 0 - evs[i].num_shares)
    IN  F[Len(evs)] >= 0

\* C9: every iteration of the matching loop advances the disposal pointer
\* or the purchase pointer and moves neither back; the loop has made at
\* most len(all_sells) + len(relevant_buys) iterations; some step can be
\* taken until the call has ended; and when the purchases dated <=
\* end_date cover the disposals dated <= end_date the call does not raise
\* and returns with the disposal pointer at the end of all_sells.
C9_SweepTerminates ==
    /\ \A k \in MatchIdx :
          /\ SalePosAfter(k) >= log[k].sale_pos
          /\ BuyPosAfter(k) >= log[k].buy_pos
          /\ SalePosAfter(k) + BuyPosAfter(k) > log[k].sale_pos + log[k].buy_pos
    /\ pc \in {"match"} \cup Terminal =>
          /\ Cardinality(MatchIdx) <= Len(all_sells) + Len(relevant_buys)
          /\ sale_index <= Len(all_sells)
          /\ buy_index <= Len(relevant_buys)
    /\ pc \notin Terminal =>
          \/ CanCall
          \/ CanCarryConsume \/ CanCarryPartial \/ CanCarryEnd
          \/ CanMatchMore \/ CanMatchLess \/ CanMatchEqual
          \/ CanRaiseIndexError \/ CanReturn
    /\ Sufficient(events0, end_date) =>
          /\ pc # "IndexError"
          /\ pc = "returned" => sale_index = Len(all_sells)

\* C9 witness: a returned call, on purchases that suffice, whose loop made
\* three iterations or more and advanced both pointers.
C9_Witness ==
    /\ pc = "returned" /\ Sufficient(events0, end_date)
    /\ Cardinality(MatchIdx) >= 3
    /\ buy_index >= 1 /\ sale_index >= 2

---------------------------------------------------------------------------
(* C10 *)

\* C10: on a chronologically ordered list, every match step pairs a
\* disposal with a purchase lot dated no later than the disposal, and every
\* lot the prior disposals consume is dated no later than some prior
\* disposal.
C10_NoLaterLotMatched ==
    /\ \A k \in MatchIdx :
          events0[log[k].buy].date <= events0[log[k].sale].date
    /\ \A k \in LogIdx :
          (log[k].phase = "carry" /\ log[k].qty > 0) =>
              \E i \in 1..Len(events0) :
                  /\ SellPrior(events0[i], start_date)
                  /\ events0[log[k].buy].date <= events0[i].date

---------------------------------------------------------------------------
(* C5 *)

SameAsFirst == pc = result1.pc /\ (pc = "returned" => cgt = result1.cgt)

\* C5 as claimed: whenever the first call returned a non-zero gain, the
\* second call on the same objects and window ends differently.
C5_SecondCallDiffers ==
    (calls = 2 /\ pc \in Terminal /\ result1.pc = "returned" /\ result1.cgt # 0)
        => ~SameAsFirst

\* C5 amended: a first call that returns a non-zero gain has lowered the
\* num_shares of at least one event and raised none; and when all costs
\* are zero and no step of the first call took the branch of line 70 (a
\* disposal matched inside a larger lot), the second call ends differently
\* from the first.
C5_FirstCallConsumes ==
    /\ (calls = 1 /\ pc = "returned" /\ cgt # 0) =>
          /\ \E i \in 1..Len(events) : events[i].num_shares < events0[i].num_shares
          /\ \A i \in 1..Len(events) : events[i].num_shares <= events0[i].num_shares
    /\ ( /\ calls = 2 /\ pc \in Terminal
         /\ result1.pc = "returned" /\ result1.cgt # 0
         /\ ZeroCosts(events0)
         /\ \A k \in 1..Len(result1.log) : result1.log[k].branch # "more" )
          => ~SameAsFirst

\* C5 witness: a second call that returned, after a first call that
\* returned a non-zero gain without the branch of line 70, on zero costs.
C5_Witness ==
    /\ calls = 2 /\ pc = "returned"
    /\ result1.pc = "returned" /\ result1.cgt # 0
    /\ ZeroCosts(events0)
    /\ Len(result1.log) >= 2
    /\ \A k \in 1..Len(result1.log) : result1.log[k].branch # "more"
    /\ \E i \in 1..Len(events) : events[i].num_shares < events0[i].num_shares

---------------------------------------------------------------------------
(* C4 *)

\* evs in timestamp order (the timestamps are distinct)
SortByDate(evs) ==
    [r \in 1..Len(evs) |->
        evs[CHOOSE i \in 1..Len(evs) :
                Cardinality({j \in 1..Len(evs) : evs[j].date < evs[i].date}) = r - 1]]

\* The purchases appear in timestamp order and so do the disposals
KindSorted(evs) ==
    \A i, j \in 1..Len(evs) :
        (i < j /\ evs[i].evType = evs[j].evType) => evs[i].date < evs[j].date

SameAsSorted ==
    LET r == calculate_gain_for_ticker(SortByDate(events0), start_date, end_date)
    IN  r.pc = pc /\ (pc = "returned" => r.cgt = cgt)

=============================================================================
